---- MODULE Spec2Model ----
(***************************************************************************)
(* PyShop, the `products` application: two models (Product, Offer), their  *)
(* registration with the admin site, the URLconf of the application and    *)
(* its two views.                                                          *)
(*                                                                         *)
(* Storage is one table per model, a function from primary key to the      *)
(* row's field values.  Every step of the model is one HTTP exchange: a    *)
(* request to a path of the application's URLconf, or one of the admin     *)
(* site's add / change / delete / changelist views on a registered model.  *)
(* `last` holds the exchange the server answered most recently.            *)
(***************************************************************************)
EXTENDS Integers, Sequences, FiniteSets, TLC

VARIABLES db, seq, last

vars == <<db, seq, last>>

(* ------------------------------ bounds -------------------------------- *)

\* Product rows ever created in a run.
MaxProducts == 2
\* Offer rows ever created in a run.
MaxOffers == 1
\* Longest request path, in characters.
MaxPathLen == 3

(* ------------------------------ models.py ----------------------------- *)

Models == {"Product", "Offer"}

Product_name_max_length == 255
Product_image_url_max_length == 2083
Offer_code_max_length == 10
Offer_description_max_length == 255

\* Variant: Offer declared with a cascading foreign key to Product.
ForeignKeys_OfferToProduct == {<<"Offer", "Product">>}

\* Foreign keys between the models, as <<from, to>>: the models declare none.
ForeignKeys == {}

\* A text field declared without blank=True is required and is limited to
\* its max_length.
CharFieldOk(value, max_length) ==
    /\ value # ""
    /\ Len(value) <= max_length

\* Validation of the submitted field values, as the model's fields state it.
full_clean(model, f) ==
    IF model = "Product"
    THEN /\ CharFieldOk(f.name, Product_name_max_length)
         /\ CharFieldOk(f.image_url, Product_image_url_max_length)
    ELSE /\ CharFieldOk(f.code, Offer_code_max_length)
         /\ CharFieldOk(f.description, Offer_description_max_length)

\* Field values an admin form may be submitted with.
ProductForms ==
    [name : {"", "tea"}, price : {5}, stock : {0, 3}, image_url : {"u.png"}]

OfferForms ==
    [code : {"", "S10", "BLACKFRIDAY"}, description : {"ten off"}, discount : {10, 20}]

Forms(model) == IF model = "Product" THEN ProductForms ELSE OfferForms

MaxRows(model) == IF model = "Product" THEN MaxProducts ELSE MaxOffers

\* A model instance: the model it belongs to, its primary key, its fields.
Instance(model, pk, row) == [model |-> model, pk |-> pk, fields |-> row]

\* Variant: the model's manager not restricted to the model's own table.
objects_all_AnyModel(tables, model) ==
    UNION {{Instance(m, pk, tables[m][pk]) : pk \in DOMAIN tables[m]}
               : m \in DOMAIN tables}

\* Model.objects.all(): every row of the model's table, and only those.
objects_all(tables, model) ==
    {Instance(model, pk, tables[model][pk]) : pk \in DOMAIN tables[model]}

(* ------------------------------ views.py ------------------------------ *)

\* Templates of the application.
Templates == {"index.html"}

\* django.shortcuts.render: the named template rendered with the context.
render(request, template_name, context) ==
    IF template_name \in Templates
    THEN [status |-> 200, template |-> template_name, context |-> context]
    ELSE [status |-> 500, template |-> template_name, context |-> context]

\* django.http.HttpResponse(content)
HttpResponse(content) == [status |-> 200, content |-> content]

\* Variant: the listing restricted to products in stock.
index_InStockOnly(request, tables) ==
    LET products == {i \in objects_all(tables, "Product") : i.fields.stock > 0}
    IN  [response |-> render(request, "index.html", [products |-> products]),
         tables |-> tables]

\* Variant: the listing answers 404 when there is no product to list.
index_404OnEmpty(request, tables) ==
    LET products == objects_all(tables, "Product")
    IN  [response |-> IF products = {}
                      THEN [status |-> 404, template |-> "404.html",
                            context |-> [products |-> products]]
                      ELSE render(request, "index.html", [products |-> products]),
         tables |-> tables]

\* A view's outcome: its response and the tables as it leaves them.
index(request, tables) ==
    LET products == objects_all(tables, "Product")
    IN  [response |-> render(request, "index.html", [products |-> products]),
         tables |-> tables]

\* Variant: the text reports how many products are stored.
new_CountsProducts(request, tables) ==
    [response |-> HttpResponse(IF tables["Product"] = <<>>
                               THEN "New Products" ELSE "No New Products"),
     tables |-> tables]

\* Variant: the view stores a product of its own.
new_CreatesProduct(request, tables) ==
    [response |-> HttpResponse("New Products"),
     tables |-> [tables EXCEPT !["Product"] =
                    (1 :> [name |-> "tea", price |-> 5, stock |-> 0,
                           image_url |-> "u.png"]) @@ @]]

new(request, tables) ==
    [response |-> HttpResponse("New Products"), tables |-> tables]

(* ------------------------------ urls.py ------------------------------- *)

PathChars == {"n", "e", "w"}

RECURSIVE SeqsUpTo(_)
SeqsUpTo(n) ==
    IF n = 0 THEN {<<>>}
    ELSE LET shorter == SeqsUpTo(n - 1)
         IN  shorter \cup {Append(s, c) : s \in {t \in shorter : Len(t) = n - 1},
                                          c \in PathChars}

\* Request paths, relative to the application's URLconf.
Paths == SeqsUpTo(MaxPathLen)

Root == <<>>
NewPath == <<"n", "e", "w">>

urlpatterns ==
    << [route |-> Root, view |-> "index"],
       [route |-> NewPath, view |-> "new"] >>

\* Variant: a route matches any path it is a prefix of.
route_match_Prefix(route, path) ==
    /\ Len(route) <= Len(path)
    /\ SubSeq(path, 1, Len(route)) = route

\* path(route, view) matches the whole of the remaining path.
route_match(route, path) == path = route

\* The first pattern that matches, or "Resolver404".
resolve(path) ==
    LET hits == {i \in DOMAIN urlpatterns : route_match(urlpatterns[i].route, path)}
    IN  IF hits = {} THEN "Resolver404"
        ELSE urlpatterns[CHOOSE i \in hits : \A j \in hits : i <= j].view

call_view(view, request, tables) ==
    IF view = "index" THEN index(request, tables) ELSE new(request, tables)

(* ------------------------------ admin.py ------------------------------ *)

\* Variant: every field of Product listed.
ProductAdmin_list_display_AllFields == <<"name", "price", "stock", "image_url">>

ProductAdmin_list_display == <<"name", "price", "stock">>
OfferAdmin_list_display == <<"code", "discount">>

\* admin.site.register(model, admin_class)
registry ==
    [Product |-> [list_display |-> ProductAdmin_list_display],
     Offer |-> [list_display |-> OfferAdmin_list_display]]

is_registered(model) == model \in DOMAIN registry

\* The rows a delete removes: the row itself, and the rows of models that
\* hold a foreign key to its model.
delete(tables, model, pk) ==
    [m \in DOMAIN tables |->
        IF m = model
        THEN [k \in DOMAIN tables[m] \ {pk} |-> tables[m][k]]
        ELSE IF <<m, model>> \in ForeignKeys
             THEN <<>>
             ELSE tables[m]]

\* The changelist: one line per row, with the list_display columns.
changelist(tables, model) ==
    LET cols == registry[model].list_display
    IN  [columns |-> cols,
         lines |-> {[c \in {cols[i] : i \in DOMAIN cols} |-> tables[model][pk][c]]
                        : pk \in DOMAIN tables[model]}]

(* ------------------------------ the machine --------------------------- *)

Init ==
    /\ db = [m \in Models |-> <<>>]
    /\ seq = [m \in Models |-> 0]
    /\ last = [view |-> "none"]

\* A request to a path of the application's URLconf.
Request(path) ==
    LET request == [method |-> "GET", path |-> path]
        view == resolve(path)
    IN  IF view = "Resolver404"
        THEN /\ last' = [view |-> view, request |-> request,
                         response |-> [status |-> 404]]
             /\ UNCHANGED <<db, seq>>
        ELSE LET out == call_view(view, request, db)
             IN  /\ last' = [view |-> view, request |-> request,
                             response |-> out.response]
                 /\ db' = out.tables
                 /\ UNCHANGED seq

\* Variant: a valid add form answered without saving the row.
AdminAdd_NotSaved(model, f) ==
    /\ is_registered(model)
    /\ seq[model] < MaxRows(model)
    /\ last' = IF full_clean(model, f)
               THEN [view |-> "add_view", model |-> model, pk |-> seq[model] + 1,
                     response |-> [status |-> 302]]
               ELSE [view |-> "add_view", model |-> model, pk |-> 0,
                     response |-> [status |-> 200]]
    /\ UNCHANGED <<db, seq>>

\* The admin's add form, submitted.
AdminAdd(model, f) ==
    /\ is_registered(model)
    /\ seq[model] < MaxRows(model)
    /\ IF full_clean(model, f)
       THEN LET pk == seq[model] + 1
            IN  /\ db' = [db EXCEPT ![model] = @ @@ (pk :> f)]
                /\ seq' = [seq EXCEPT ![model] = pk]
                /\ last' = [view |-> "add_view", model |-> model, pk |-> pk,
                            response |-> [status |-> 302]]
       ELSE /\ last' = [view |-> "add_view", model |-> model, pk |-> 0,
                        response |-> [status |-> 200]]
            /\ UNCHANGED <<db, seq>>

\* The admin's change form of row pk, submitted.
AdminChange(model, pk, f) ==
    /\ is_registered(model)
    /\ pk \in DOMAIN db[model]
    /\ IF full_clean(model, f)
       THEN /\ db' = [db EXCEPT ![model][pk] = f]
            /\ last' = [view |-> "change_view", model |-> model, pk |-> pk,
                        response |-> [status |-> 302]]
            /\ UNCHANGED seq
       ELSE /\ last' = [view |-> "change_view", model |-> model, pk |-> pk,
                        response |-> [status |-> 200]]
            /\ UNCHANGED <<db, seq>>

\* The admin's delete confirmation of row pk, submitted.
AdminDelete(model, pk) ==
    /\ is_registered(model)
    /\ pk \in DOMAIN db[model]
    /\ db' = delete(db, model, pk)
    /\ last' = [view |-> "delete_view", model |-> model, pk |-> pk,
                response |-> [status |-> 302]]
    /\ UNCHANGED seq

\* The admin's list page of a model.
AdminChangelist(model) ==
    /\ is_registered(model)
    /\ last' = [view |-> "changelist_view", model |-> model,
                response |-> [status |-> 200] @@ changelist(db, model)]
    /\ UNCHANGED <<db, seq>>

Next ==
    \/ \E path \in Paths : Request(path)
    \/ \E model \in Models : \E f \in Forms(model) : AdminAdd(model, f)
    \/ \E model \in Models : \E pk \in 1..MaxRows(model) :
           \E f \in Forms(model) : AdminChange(model, pk, f)
    \/ \E model \in Models : \E pk \in 1..MaxRows(model) : AdminDelete(model, pk)
    \/ \E model \in Models : AdminChangelist(model)

Spec == Init /\ [][Next]_vars

(* ------------------------------ properties ---------------------------- *)

\* The rows of the Product table, as instances, written out from the table.
StoredProducts ==
    {[model |-> "Product", pk |-> pk, fields |-> db["Product"][pk]]
        : pk \in DOMAIN db["Product"]}

\* The field values a form accepts.
ValidForms(model) == {f \in Forms(model) : full_clean(model, f)}

\* Every table a model can have.
Tables(model) ==
    UNION {[S -> ValidForms(model)] : S \in SUBSET (1..MaxRows(model))}

\* The step is a request served by the application's URLconf (the exchange
\* it leaves in `last` names the path it was made to).
RequestStep ==
    /\ last'.view \in {"index", "new", "Resolver404"}
    /\ Request(last'.request.path)

\* The step is an admin add, change or delete of a row of the model.
AdminWrite(model) ==
    /\ last'.view \in {"add_view", "change_view", "delete_view"}
    /\ last'.model = model
    /\ \/ \E f \in Forms(model) : AdminAdd(model, f)
       \/ \E f \in Forms(model) : AdminChange(model, last'.pk, f)
       \/ AdminDelete(model, last'.pk)

\* C1: whatever the storage state, the listing route answers 200 and the
\* products it hands to the template include every stored Product row.
C1_ListingIncludesEveryRow ==
    last.view = "index" =>
        /\ last.response.status = 200
        /\ \A p \in StoredProducts : p \in last.response.context.products

C1_Witness ==
    /\ last.view = "index"
    /\ Cardinality(StoredProducts) = 2
    /\ \E p \in StoredProducts : p.fields.stock = 0
    /\ StoredProducts \subseteq last.response.context.products

\* C2: a Product added through the admin with valid field values is stored
\* under a fresh primary key, stays stored until the admin deletes it, and
\* every listing served while it is stored contains it.
C2_CreatedProductIsListed ==
    /\ [][\A f \in ProductForms :
            (full_clean("Product", f) /\ AdminAdd("Product", f)) =>
                \E pk \in DOMAIN db'["Product"] \ DOMAIN db["Product"] :
                    db'["Product"][pk] = f]_vars
    /\ [][\A pk \in DOMAIN db["Product"] :
            pk \notin DOMAIN db'["Product"] => AdminDelete("Product", pk)]_vars
    /\ [](last.view = "index" =>
            \A pk \in DOMAIN db["Product"] :
                \E p \in last.response.context.products :
                    p.model = "Product" /\ p.pk = pk)

C2_Witness ==
    /\ last.view = "index"
    /\ seq["Product"] = 1
    /\ seq["Offer"] = 0
    /\ \E p \in last.response.context.products :
           p.pk = 1 /\ p.fields = db["Product"][1]

\* C3: the secondary route answers the text "New Products" whatever the
\* Product and Offer tables hold: the view gives the same response on every
\* reachable storage state.
C3_NewIsStatic ==
    /\ last.view = "new" =>
           last.response = [status |-> 200, content |-> "New Products"]
    /\ new([method |-> "GET", path |-> NewPath], db).response.content
           = "New Products"

C3_Witness ==
    /\ last.view = "new"
    /\ DOMAIN db["Product"] # {}
    /\ DOMAIN db["Offer"] # {}

\* C4: the admin list of Product shows exactly name, price, stock, in that
\* order (not image_url), the admin list of Offer exactly code, discount (not
\* description), and both models are registered with the admin.
C4_ListDisplayColumns ==
    /\ \A model \in Models : is_registered(model)
    /\ last.view = "changelist_view" =>
        /\ last.model = "Product" =>
               last.response.columns = <<"name", "price", "stock">>
        /\ last.model = "Offer" =>
               last.response.columns = <<"code", "discount">>
        /\ \A line \in last.response.lines :
               DOMAIN line = IF last.model = "Product"
                             THEN {"name", "price", "stock"}
                             ELSE {"code", "discount"}

C4_Witness ==
    /\ last.view = "changelist_view"
    /\ last.model = "Product"
    /\ last.response.lines # {}
    /\ DOMAIN db["Offer"] # {}

\* C5: the root path is answered by index and by nothing else, the path
\* 'new' by new and by nothing else, and every other path by neither.
C5_RouteDispatch ==
    last.view \in {"index", "new", "Resolver404"} =>
        /\ last.request.path = Root <=> last.view = "index"
        /\ last.request.path = NewPath <=> last.view = "new"
        /\ last.request.path \notin {Root, NewPath} <=> last.view = "Resolver404"

C5_Witness ==
    /\ last.view = "Resolver404"
    /\ last.request.path = <<"n", "e">>
    /\ last.response.status = 404

\* C6: serving a request with index or new leaves the Product and the Offer
\* table as they were; only an admin add, change or delete changes a table.
C6_ViewsLeaveTablesAlone ==
    /\ [][RequestStep => db' = db /\ seq' = seq]_vars
    /\ [][db' # db => AdminWrite("Product") \/ AdminWrite("Offer")]_vars

C6_Witness ==
    /\ last.view = "index"
    /\ DOMAIN db["Product"] # {}
    /\ DOMAIN db["Offer"] # {}

\* C7: an admin add, change or delete of an Offer changes no Product row,
\* the delete of a Product changes no Offer row, and a listing is the same
\* whatever the Offer table holds.
C7_ProductAndOfferUnlinked ==
    /\ [][AdminWrite("Offer") => db'["Product"] = db["Product"]]_vars
    /\ [][(last'.view = "delete_view" /\ AdminDelete("Product", last'.pk)) =>
              db'["Offer"] = db["Offer"]]_vars
    /\ [](last.view = "index" =>
            \A offers \in Tables("Offer") :
                index(last.request, [db EXCEPT !["Offer"] = offers]).response
                    = last.response)

C7_Witness ==
    /\ last.view = "delete_view"
    /\ last.model = "Product"
    /\ DOMAIN db["Offer"] # {}

\* C8: the products handed to the template are exactly the rows of the
\* Product table at the time of the request: no deleted row, every row with
\* its current field values, and no Offer row.
C8_ListingIsExactlyTheTable ==
    last.view = "index" =>
        /\ last.response.context.products = StoredProducts
        /\ \A p \in last.response.context.products : p.model # "Offer"

C8_Witness ==
    /\ last.view = "index"
    /\ seq["Product"] = 2
    /\ DOMAIN db["Product"] = {2}
    /\ DOMAIN db["Offer"] # {}
    /\ Cardinality(last.response.context.products) = 1

\* C9: index has no error outcome: on every reachable storage state it
\* answers 200, and on an empty Product table 200 with no products.
C9_IndexNeverFails ==
    /\ index([method |-> "GET", path |-> Root], db).response.status = 200
    /\ last.view = "index" =>
        /\ last.response.status = 200
        /\ last.response.template = "index.html"
        /\ DOMAIN db["Product"] = {} => last.response.context.products = {}

C9_Witness ==
    /\ last.view = "index"
    /\ seq["Product"] > 0
    /\ DOMAIN db["Product"] = {}
    /\ last.response.context.products = {}

====
